---- MODULE Spec2Model ----
(***************************************************************************)
(* A model of tex_to_epub.py: the layout cleaner, the image placeholder    *)
(* rewriter and the document assembler that builds one ePub from a list    *)
(* of .tex materials.                                                      *)
(*                                                                         *)
(* HTML text is a sequence of atoms.  An atom is one character, one whole  *)
(* match of the placeholder regex of replace_image_references_in_html, or  *)
(* one <img> tag written by it.  File names are (stem, ext) pairs, paths   *)
(* are (dir, stem, ext) triples.                                           *)
(***************************************************************************)
EXTENDS Integers, Sequences, FiniteSets, TLC

VARIABLES
    cl_pc, cl_in, cl_once, cl_twice,          \* the layout cleaner on its own
    rw_pc, rw_in, rw_out, rw_media_dir, rw_html_dir,  \* one rewriter call
    env,                                      \* the outside world: tools and files
    fs,                                       \* the files that exist, with their data
    pc, cfg, index,                           \* convert_tex_to_epub: position, config
    dirs, log, calls, error, book, output,    \* directories, log lines, Pandoc calls
    placed, origin                            \* history: tags written, chapters' materials

clvars == <<cl_pc, cl_in, cl_once, cl_twice>>

rwvars == <<rw_pc, rw_in, rw_out, rw_media_dir, rw_html_dir>>

runvars == <<pc, cfg, index, dirs, log, calls, error, book, output, placed, origin>>

vars == <<cl_pc, cl_in, cl_once, cl_twice,
          rw_pc, rw_in, rw_out, rw_media_dir, rw_html_dir, env, fs,
          pc, cfg, index, dirs, log, calls, error, book, output, placed, origin>>

----------------------------------------------------------------------------
(* HTML atoms *)

Ch(c) == [k |-> "c", c |-> c, stem |-> "", ext |-> ""]

Placeholder(stem, ext) == [k |-> "ph", c |-> "", stem |-> stem, ext |-> ext]

ImgTag(stem, ext) == [k |-> "img", c |-> "", stem |-> stem, ext |-> ext]

Text(t) == [i \in 1..Len(t) |-> Ch(t[i])]

RECURSIVE Concat(_)
Concat(ss) == IF ss = <<>> THEN <<>> ELSE Head(ss) \o Concat(Tail(ss))

----------------------------------------------------------------------------
(* remove_multicols_html *)

MulticolsOpen ==
    Text(<<"<", "d", "i", "v", " ", "c", "l", "a", "s", "s", "=", "\"", "m", "u",
           "l", "t", "i", "c", "o", "l", "s", "\"", ">">>)

DivClose == Text(<<"<", "/", "d", "i", "v", ">">>)

NumParaOpen == Text(<<"<", "p", ">", "<", "s", "p", "a", "n", ">">>)

NumParaClose == Text(<<"<", "/", "s", "p", "a", "n", ">", "<", "/", "p", ">">>)

Digits == {"0", "1", "2", "3", "4", "5", "6", "7", "8", "9"}

StartsWith(s, p) == Len(s) >= Len(p) /\ SubSeq(s, 1, Len(p)) = p

Drop(s, n) == SubSeq(s, n + 1, Len(s))

\* str.replace(old, ''): left to right, non-overlapping, one pass
RECURSIVE StrRemove(_, _)
StrRemove(s, old) ==
    IF s = <<>> THEN <<>>
    ELSE IF StartsWith(s, old) THEN StrRemove(Drop(s, Len(old)), old)
    ELSE <<Head(s)>> \o StrRemove(Tail(s), old)

\* the length of the run of \d characters at the head of s
RECURSIVE DigitRun(_)
DigitRun(s) ==
    IF s # <<>> /\ Head(s).k = "c" /\ Head(s).c \in Digits
    THEN 1 + DigitRun(Tail(s)) ELSE 0

\* the length of the match of <p><span>\d+</span></p> at the head of s, or 0
NumParaMatch(s) ==
    IF ~StartsWith(s, NumParaOpen) THEN 0
    ELSE LET rest == Drop(s, Len(NumParaOpen))
             n    == DigitRun(rest)
         IN IF n >= 1 /\ StartsWith(Drop(rest, n), NumParaClose)
            THEN Len(NumParaOpen) + n + Len(NumParaClose) ELSE 0

\* re.sub(r'<p><span>\d+</span></p>', '', s)
RECURSIVE ReSubNumPara(_)
ReSubNumPara(s) ==
    IF s = <<>> THEN <<>>
    ELSE IF NumParaMatch(s) > 0 THEN ReSubNumPara(Drop(s, NumParaMatch(s)))
    ELSE <<Head(s)>> \o ReSubNumPara(Tail(s))

remove_multicols_html(html_content) ==
    ReSubNumPara(StrRemove(StrRemove(html_content, MulticolsOpen), DivClose))

----------------------------------------------------------------------------
(* Paths and files *)

NoDir == ""

\* f"{Path(config_path).stem}-html"
HtmlDir == "cfg-html"

NoPath == [dir |-> NoDir, stem |-> "", ext |-> ""]

PathOf(dir, stem, ext) == [dir |-> dir, stem |-> stem, ext |-> ext]

\* str.lower() on the extensions that occur
Lower(e) ==
    CASE e = "PDF" -> "pdf"
      [] e = "PNG" -> "png"
      [] e = "JPG" -> "jpg"
      [] OTHER -> e

\* the data of a file as it was found: all of its pages, in its own format
Native(p) == [src |-> p, fmt |-> Lower(p.ext), pages |-> "all", html |-> <<>>]

\* ImageMagick's output for "<pdf>[0]": the first page, encoded as JPEG
FirstPageJpeg(d) == [src |-> d.src, fmt |-> "jpg", pages |-> "first", html |-> <<>>]

FileAt(p, data) == [dir |-> p.dir, stem |-> p.stem, ext |-> p.ext, data |-> data]

SamePath(f, p) == f.dir = p.dir /\ f.stem = p.stem /\ f.ext = p.ext

\* Path.is_file()
IsFile(files, p) == \E f \in files : SamePath(f, p)

ReadFile(files, p) == (CHOOSE f \in files : SamePath(f, p)).data

\* writing replaces what was at the path
WriteFile(files, p, data) ==
    { f \in files : ~SamePath(f, p) } \cup { FileAt(p, data) }

RemoveFile(files, p) == { f \in files : ~SamePath(f, p) }

----------------------------------------------------------------------------
(* The parts of the state a specification does not use *)

CleanIdle ==
    /\ cl_pc = "off"
    /\ cl_in = <<>>
    /\ cl_once = <<>>
    /\ cl_twice = <<>>

RewriteIdle ==
    /\ rw_pc = "off"
    /\ rw_in = <<>>
    /\ rw_out = <<>>
    /\ rw_media_dir = NoDir
    /\ rw_html_dir = NoDir

----------------------------------------------------------------------------
(* copy_image_to_html_dir, convert_pdf_to_jpg, replace_image_references_in_html *)

\* as copy_image_to_html_dir, but a name that is taken in html_dir is not
\* overwritten: the copy gets a new name
copy_image_to_html_dir_NewName(image_path, html_dir, files) ==
    LET taken == IsFile(files, PathOf(html_dir, image_path.stem, image_path.ext))
        html_image_path ==
            PathOf(html_dir, IF taken THEN image_path.stem \o "_1" ELSE image_path.stem,
                   image_path.ext)
    IN IF image_path.stem \in env.copyFails
       THEN [path |-> NoPath, fs |-> files]
       ELSE [path |-> html_image_path,
             fs |-> WriteFile(files, html_image_path, ReadFile(files, image_path))]

\* copyfile raises for the names in env.copyFails
copy_image_to_html_dir(image_path, html_dir, files) ==
    LET html_image_path == PathOf(html_dir, image_path.stem, image_path.ext)
    IN IF image_path.stem \in env.copyFails
       THEN [path |-> NoPath, fs |-> files]
       ELSE [path |-> html_image_path,
             fs |-> WriteFile(files, html_image_path, ReadFile(files, image_path))]

\* ImageMagick exits non-zero for the stems in env.convFails
convert_pdf_to_jpg(pdf_path, files) ==
    LET jpg_path == PathOf(pdf_path.dir, pdf_path.stem, "jpg")
    IN IF pdf_path.stem \in env.convFails
       THEN [path |-> NoPath, fs |-> files]
       ELSE [path |-> jpg_path,
             fs |-> WriteFile(files, jpg_path,
                              FirstPageJpeg(ReadFile(files, pdf_path)))]

\* lines 88-97: media_dir first, then the directory of the .tex file
ResolveImage(m, media_dir, tex_dir, files) ==
    IF media_dir # NoDir /\ IsFile(files, PathOf(media_dir, m.stem, m.ext))
    THEN PathOf(media_dir, m.stem, m.ext)
    ELSE IF IsFile(files, PathOf(tex_dir, m.stem, m.ext))
    THEN PathOf(tex_dir, m.stem, m.ext)
    ELSE NoPath

\* as EmitTag, but a failed copy is not noticed and the tag is written
EmitTag_CopyUnchecked(m, src, image_path, html_dir, files) ==
    IF html_dir # NoDir
    THEN LET c == copy_image_to_html_dir(image_path, html_dir, files)
         IN [out |-> ImgTag(image_path.stem, image_path.ext), fs |-> c.fs, src |-> src]
    ELSE [out |-> ImgTag(image_path.stem, image_path.ext), fs |-> files, src |-> src]

\* lines 112-120: copy into the debug HTML directory, write the <img> tag.
\* src is the resolved source, recorded with the tag that was written.
EmitTag(m, src, image_path, html_dir, files) ==
    IF html_dir # NoDir
    THEN LET c == copy_image_to_html_dir(image_path, html_dir, files)
         IN IF c.path = NoPath
            THEN [out |-> m, fs |-> c.fs, src |-> NoPath]
            ELSE [out |-> ImgTag(c.path.stem, c.path.ext), fs |-> c.fs, src |-> src]
    ELSE [out |-> ImgTag(image_path.stem, image_path.ext), fs |-> files, src |-> src]

\* as replace_placeholder, but the suffix is compared without lower()
replace_placeholder_CaseSensitive(m, media_dir, tex_dir, html_dir, files) ==
    LET image_path == ResolveImage(m, media_dir, tex_dir, files)
    IN IF image_path = NoPath \/ ~IsFile(files, image_path)
       THEN [out |-> m, fs |-> files, src |-> NoPath]
       ELSE IF image_path.ext = "pdf"
       THEN LET r == convert_pdf_to_jpg(image_path, files)
            IN IF r.path # NoPath /\ IsFile(r.fs, r.path)
               THEN EmitTag(m, image_path, r.path, html_dir, r.fs)
               ELSE [out |-> m, fs |-> r.fs, src |-> NoPath]
       ELSE EmitTag(m, image_path, image_path, html_dir, files)

replace_placeholder(m, media_dir, tex_dir, html_dir, files) ==
    LET image_path == ResolveImage(m, media_dir, tex_dir, files)
    IN IF image_path = NoPath \/ ~IsFile(files, image_path)
       THEN [out |-> m, fs |-> files, src |-> NoPath]
       ELSE IF Lower(image_path.ext) = "pdf"
       THEN LET r == convert_pdf_to_jpg(image_path, files)
            IN IF r.path # NoPath /\ IsFile(r.fs, r.path)
               THEN EmitTag(m, image_path, r.path, html_dir, r.fs)
               ELSE [out |-> m, fs |-> r.fs, src |-> NoPath]
       ELSE EmitTag(m, image_path, image_path, html_dir, files)

\* pattern.sub(replace_placeholder, html_content): the matches left to right,
\* everything else copied.  placed lists (source, written name) per tag.
RECURSIVE ReSubPlaceholders(_, _, _, _, _)
ReSubPlaceholders(html, media_dir, tex_dir, html_dir, files) ==
    IF html = <<>> THEN [html |-> <<>>, fs |-> files, placed |-> <<>>]
    ELSE IF Head(html).k = "ph"
    THEN LET r    == replace_placeholder(Head(html), media_dir, tex_dir, html_dir, files)
             rest == ReSubPlaceholders(Tail(html), media_dir, tex_dir, html_dir, r.fs)
         IN [html |-> <<r.out>> \o rest.html, fs |-> rest.fs,
             placed |-> (IF r.src = NoPath THEN <<>>
                         ELSE <<[src |-> r.src, stem |-> r.out.stem, ext |-> r.out.ext]>>)
                        \o rest.placed]
    ELSE LET rest == ReSubPlaceholders(Tail(html), media_dir, tex_dir, html_dir, files)
         IN [html |-> <<Head(html)>> \o rest.html, fs |-> rest.fs,
             placed |-> rest.placed]

replace_image_references_in_html(html_content, media_dir, tex_dir, html_dir, files) ==
    ReSubPlaceholders(html_content, media_dir, tex_dir, html_dir, files)

----------------------------------------------------------------------------
(* The configuration and the outside world of a run *)

MaxMaterials == 2

NoTexEnv == [exists |-> FALSE, pandoc |-> "ok", html |-> <<>>, media |-> {}]

TexFiles == { [dir |-> "a", stem |-> "ch1"], [dir |-> "a", stem |-> "ch2"] }

TexPath(t) == PathOf(t.dir, t.stem, "tex")

\* tex_file.replace(".tex", ".html")
HtmlPathOf(t) == PathOf(t.dir, t.stem, "html")

\* tex_file.replace(".tex", "_media")
MediaDirOf(t) == t.dir \o "/" \o t.stem \o "_media"

\* f"{Path(config_path).stem}.log"
LogPath == PathOf(".", "cfg", "log")

OutputPath == PathOf(".", "output", "epub")

\* what Pandoc writes for a material
HtmlDocs ==
    { MulticolsOpen \o NumParaOpen \o Text(<<"2">>) \o NumParaClose
        \o <<Placeholder("diagram", "pdf"), Ch("x"), Placeholder("diagram", "pdf")>>
        \o DivClose,
      <<Placeholder("photo", "png"), Placeholder("gone", "png")>> }

\* what Pandoc extracts into the media directory of a material
MediaSets == { {}, { [stem |-> "fig", ext |-> "png"], [stem |-> "notes", ext |-> "txt"] } }

\* a material: is the .tex file there, what does Pandoc do with it
\*   nonzero     Pandoc exits non-zero (CalledProcessError)
\*   nostart     Pandoc cannot be started (FileNotFoundError)
\*   nooutput    Pandoc exits 0 and writes no HTML file
\*   unreadable  Pandoc writes an HTML file that does not decode as UTF-8
TexEnvs ==
    { NoTexEnv }
    \cup { [exists |-> TRUE, pandoc |-> o, html |-> <<>>, media |-> {}] :
             o \in {"nonzero", "nostart", "nooutput", "unreadable"} }
    \cup { [exists |-> TRUE, pandoc |-> "ok", html |-> h, media |-> m] :
             h \in HtmlDocs, m \in MediaSets }

MaterialLists == UNION { [1..n -> TexFiles] : n \in 0..MaxMaterials }

Configs ==
    [materials : MaterialLists, extractMedia : BOOLEAN, debug : BOOLEAN,
     cover : BOOLEAN]

\* the files before the run: the .tex files that exist, two images beside them
RunFiles(e) ==
    { FileAt(TexPath(t), Native(TexPath(t))) : t \in { u \in TexFiles : e.tex[u].exists } }
    \cup { FileAt(p, Native(p)) :
             p \in { PathOf("a", "diagram", "pdf"), PathOf("a", "photo", "png") } }

----------------------------------------------------------------------------
(* convert_tex_to_html, add_media_to_epub, the body of the material loop *)

LogLine(debug, S, line) == IF debug THEN [S EXCEPT !.log = Append(@, line)] ELSE S

convert_tex_to_html(tex_file, extract_media, debug, S) ==
    LET output_html == HtmlPathOf(tex_file)
        media_dir   == IF extract_media THEN MediaDirOf(tex_file) ELSE NoDir
        te          == env.tex[tex_file]
        S1          == [S EXCEPT !.calls = Append(@, tex_file)]
        html_data   == [src |-> TexPath(tex_file),
                        fmt |-> IF te.pandoc = "ok" THEN "html" ELSE "bytes",
                        pages |-> "all", html |-> te.html]
        extracted   == IF extract_media THEN te.media ELSE {}
        written     == { FileAt(PathOf(media_dir, n.stem, n.ext),
                                Native(PathOf(media_dir, n.stem, n.ext))) : n \in extracted }
    IN CASE te.pandoc = "nostart" ->
              [html_file |-> NoPath, media_dir |-> NoDir,
               S |-> [S1 EXCEPT !.error = "FileNotFoundError"]]
         [] te.pandoc = "nonzero" ->
              [html_file |-> NoPath, media_dir |-> NoDir,
               S |-> LogLine(debug, S1, "convert error")]
         [] te.pandoc = "nooutput" ->
              [html_file |-> output_html, media_dir |-> media_dir,
               S |-> LogLine(debug, S1, "converted")]
         [] OTHER ->
              [html_file |-> output_html, media_dir |-> media_dir,
               S |-> LogLine(debug,
                       [S1 EXCEPT !.fs = WriteFile(@, output_html, html_data) \cup written,
                                  !.dirs = IF extracted = {} THEN @ ELSE @ \cup {media_dir}],
                       "converted")]

MediaSuffixes == {"jpg", "jpeg", "png", "gif", "svg"}

\* the order of glob("**/*") is the directory's; no property depends on it
RECURSIVE SetToSeq(_)
SetToSeq(set) ==
    IF set = {} THEN <<>>
    ELSE LET x == CHOOSE y \in set : TRUE IN <<x>> \o SetToSeq(set \ {x})

MediaItem(f) ==
    [kind |-> "media", number |-> 0, stem |-> f.stem, ext |-> f.ext,
     media_type |-> Lower(f.ext), content |-> <<>>, data |-> f.data]

add_media_to_epub(media_dir, bk, files, directories) ==
    IF media_dir = NoDir \/ media_dir \notin directories THEN bk
    ELSE LET found == { f \in files : f.dir = media_dir /\ Lower(f.ext) \in MediaSuffixes }
         IN [bk EXCEPT !.items = @ \o [i \in 1..Cardinality(found) |->
                                           MediaItem(SetToSeq(found)[i])]]

NoData == [src |-> NoPath, fmt |-> "", pages |-> "", html |-> <<>>]

\* epub.EpubHtml(title=f"Chapter {n}", file_name=f"chapter_{n}.xhtml")
Chapter(n, html_content) ==
    [kind |-> "chapter", number |-> n, stem |-> "", ext |-> "xhtml",
     media_type |-> "", content |-> html_content, data |-> NoData]

\* lines 252-256: with debug on the HTML file is moved into the debug directory
DebugHtmlPath(html_file, debug) ==
    IF debug THEN PathOf(HtmlDir, html_file.stem, html_file.ext) ELSE html_file

MoveHtml(files, html_file, debug) ==
    IF debug
    THEN WriteFile(RemoveFile(files, html_file), DebugHtmlPath(html_file, debug),
                   ReadFile(files, html_file))
    ELSE files

\* book.add_item(item)
AddItem(bk, item) == [bk EXCEPT !.items = Append(@, item)]

\* book.spine.append(chapter)
AppendSpine(bk, chapter) == [bk EXCEPT !.spine = Append(@, chapter)]

\* lines 281-288: the chapter is added, then the extracted media, then the spine.
\* r is what convert_tex_to_html returned, w what the rewriter returned
AddToBook(r, w, chapter, c, idx) ==
    [r.S EXCEPT
       !.fs = w.fs,
       !.book = AppendSpine(IF c.extractMedia
                            THEN add_media_to_epub(r.media_dir, AddItem(@, chapter),
                                                   w.fs, r.S.dirs)
                            ELSE AddItem(@, chapter),
                            chapter),
       !.placed = @ \o w.placed,
       !.origin = Append(@, idx + 1)]

\* lines 274-280: the chapter is numbered by the loop index
BuildChapter(r, w, c, idx) == AddToBook(r, w, Chapter(idx + 1, w.html), c, idx)

\* lines 258-272: the HTML is read, cleaned and its placeholders rewritten;
\* moved is the files after the HTML file was moved
ReadHtml(r, moved, c, idx, tex_file) ==
    IF ReadFile(moved, DebugHtmlPath(r.html_file, c.debug)).fmt # "html"
    THEN [r.S EXCEPT !.fs = moved, !.error = "UnicodeDecodeError"]
    ELSE BuildChapter(
             r,
             replace_image_references_in_html(
                 remove_multicols_html(
                     ReadFile(moved, DebugHtmlPath(r.html_file, c.debug)).html),
                 r.media_dir, tex_file.dir, IF c.debug THEN HtmlDir ELSE NoDir, moved),
             c, idx)

\* lines 245-250: no HTML file, the material is skipped
AfterConvert(r, c, idx, tex_file) ==
    IF r.S.error # "none" THEN r.S
    ELSE IF r.html_file = NoPath \/ ~IsFile(r.S.fs, r.html_file)
    THEN LogLine(c.debug, r.S, "failed")
    ELSE ReadHtml(r, MoveHtml(r.S.fs, r.html_file, c.debug), c, idx, tex_file)

\* lines 229-288: one pass of the loop body; idx is the loop's index, from 0
LoopBody(S, c, idx, tex_file) ==
    IF ~IsFile(S.fs, TexPath(tex_file))
    THEN LogLine(c.debug, S, "missing")
    ELSE AfterConvert(convert_tex_to_html(tex_file, c.extractMedia, c.debug, S),
                      c, idx, tex_file)

\* lines 199-226: the log, the empty book, the cover, the debug directory
Setup(c, files) ==
    LET S0 == [fs |-> files, dirs |-> {}, log |-> <<>>, calls |-> <<>>,
               error |-> "none", placed |-> <<>>, origin |-> <<>>,
               book |-> [items |-> <<>>, spine |-> <<>>, cover |-> FALSE]]
        S1 == IF c.debug
              THEN [S0 EXCEPT !.fs = WriteFile(@, LogPath, Native(LogPath)),
                              !.log = <<"start">>]
              ELSE S0
        S2 == IF c.cover THEN [S1 EXCEPT !.book.cover = TRUE]
              ELSE LogLine(c.debug, S1, "no cover")
    IN IF c.debug THEN [S2 EXCEPT !.dirs = @ \cup {HtmlDir}] ELSE S2

RECURSIVE RunLoop(_, _, _)
RunLoop(S, c, idx) ==
    IF idx = Len(c.materials) \/ S.error # "none" THEN S
    ELSE RunLoop(LoopBody(S, c, idx, c.materials[idx + 1]), c, idx + 1)

----------------------------------------------------------------------------
(* convert_tex_to_epub *)

Cur ==
    [fs |-> fs, dirs |-> dirs, log |-> log, calls |-> calls, error |-> error,
     placed |-> placed, origin |-> origin, book |-> book]

Assign(S) ==
    /\ fs' = S.fs
    /\ dirs' = S.dirs
    /\ log' = S.log
    /\ calls' = S.calls
    /\ error' = S.error
    /\ placed' = S.placed
    /\ origin' = S.origin
    /\ book' = S.book

RunIdle ==
    /\ pc = "off"
    /\ cfg = [materials |-> <<>>, extractMedia |-> FALSE, debug |-> FALSE,
              cover |-> FALSE]
    /\ index = 0
    /\ dirs = {}
    /\ log = <<>>
    /\ calls = <<>>
    /\ error = "none"
    /\ placed = <<>>
    /\ origin = <<>>
    /\ book = [items |-> <<>>, spine |-> <<>>, cover |-> FALSE]
    /\ output = <<>>

Init ==
    /\ pc = "start"
    /\ cfg \in Configs
    /\ env \in [convFails : SUBSET {"diagram"}, copyFails : SUBSET {"diagram"},
                tex : [TexFiles -> TexEnvs]]
    \* a .tex file the configuration does not name is not there
    /\ \A t \in TexFiles :
          (\A i \in 1..Len(cfg.materials) : cfg.materials[i] # t) => env.tex[t] = NoTexEnv
    /\ fs = RunFiles(env)
    /\ index = 0
    /\ dirs = {}
    /\ log = <<>>
    /\ calls = <<>>
    /\ error = "none"
    /\ placed = <<>>
    /\ origin = <<>>
    /\ book = [items |-> <<>>, spine |-> <<>>, cover |-> FALSE]
    /\ output = <<>>
    /\ CleanIdle
    /\ RewriteIdle

\* as ReadConfig, but the log is set up before the materials are looked at
ReadConfig_LogFirst ==
    /\ pc = "start"
    /\ IF cfg.materials = <<>>
       THEN /\ pc' = "raised"
            /\ error' = "ValueError"
            /\ fs' = IF cfg.debug THEN WriteFile(fs, LogPath, Native(LogPath)) ELSE fs
            /\ log' = IF cfg.debug THEN <<"start">> ELSE log
            /\ UNCHANGED <<dirs, calls, placed, origin, book>>
       ELSE /\ pc' = "loop"
            /\ Assign(Setup(cfg, fs))
    /\ UNCHANGED <<cfg, env, index, output, clvars, rwvars>>

\* lines 186-226: the configuration is read, an empty materials list raises
\* before anything is set up
ReadConfig ==
    /\ pc = "start"
    /\ IF cfg.materials = <<>>
       THEN /\ pc' = "raised"
            /\ error' = "ValueError"
            /\ UNCHANGED <<fs, dirs, log, calls, placed, origin, book>>
       ELSE /\ pc' = "loop"
            /\ Assign(Setup(cfg, fs))
    /\ UNCHANGED <<cfg, env, index, output, clvars, rwvars>>

AtMaterial == pc = "loop" /\ index < Len(cfg.materials)

Body == LoopBody(Cur, cfg, index, cfg.materials[index + 1])

\* the material is missing or Pandoc failed: continue with the next one
SkipMaterial ==
    /\ AtMaterial
    /\ LET S == Body
       IN /\ S.error = "none" /\ S.book = book
          /\ Assign(S)
    /\ index' = index + 1
    /\ UNCHANGED <<pc, cfg, env, output, clvars, rwvars>>

\* an exception that nothing in the loop catches leaves convert_tex_to_epub
AbortRun ==
    /\ AtMaterial
    /\ LET S == Body
       IN /\ S.error # "none"
          /\ Assign(S)
    /\ pc' = "raised"
    /\ UNCHANGED <<cfg, env, index, output, clvars, rwvars>>

\* lines 252-288: the chapter is built and added
AddChapter ==
    /\ AtMaterial
    /\ LET S == Body
       IN /\ S.error = "none" /\ S.book # book
          /\ Assign(S)
    /\ index' = index + 1
    /\ UNCHANGED <<pc, cfg, env, output, clvars, rwvars>>

NavItem(kind) ==
    [kind |-> kind, number |-> 0, stem |-> "", ext |-> "",
     media_type |-> "", content |-> <<>>, data |-> NoData]

\* lines 290-300: navigation, write_epub, the last log line
WriteEpub ==
    /\ pc = "loop"
    /\ index = Len(cfg.materials)
    /\ book' = [book EXCEPT !.items = @ \o <<NavItem("ncx"), NavItem("nav")>>]
    /\ output' = <<book'>>
    /\ fs' = WriteFile(fs, OutputPath, Native(OutputPath))
    /\ log' = IF cfg.debug THEN Append(log, "generated") ELSE log
    /\ pc' = "done"
    /\ UNCHANGED <<cfg, env, index, dirs, calls, error, placed, origin, clvars, rwvars>>

Next == ReadConfig \/ SkipMaterial \/ AbortRun \/ AddChapter \/ WriteEpub

Spec == Init /\ [][Next]_vars

----------------------------------------------------------------------------
(* Properties of a run *)

\* the material converts: the .tex file is there and Pandoc writes readable HTML
Converted(t) == env.tex[t].exists /\ env.tex[t].pandoc = "ok"

Positions == [i \in 1..Len(cfg.materials) |-> i]

IsConvertedAt(i) == Converted(cfg.materials[i])

IsChapter(it) == it.kind = "chapter"

IsMedia(it) == it.kind = "media"

\* C1: the written package has one chapter per converted material, in material
\* order, and the chapters are numbered 1..k without gaps
ChaptersNumberedWithoutGaps ==
    pc = "done" =>
        LET b == output[1]
        IN /\ SelectSeq(b.items, IsChapter) = b.spine
           /\ origin = SelectSeq(Positions, IsConvertedAt)
           /\ \A k \in 1..Len(b.spine) : b.spine[k].number = k

\* C2: every file an <img> tag of a chapter names is a media item of the
\* written package
ImagesArePackaged ==
    pc = "done" =>
        \A k \in 1..Len(output[1].spine) :
            \A n \in 1..Len(output[1].spine[k].content) :
                LET a == output[1].spine[k].content[n]
                IN a.k = "img" =>
                     \E i \in 1..Len(output[1].items) :
                         /\ IsMedia(output[1].items[i])
                         /\ output[1].items[i].stem = a.stem
                         /\ output[1].items[i].ext = a.ext

\* C3: with a non-empty materials list no error leaves the material loop
RecoverableErrorsAreSwallowed ==
    cfg.materials # <<>> => (error = "none" /\ pc # "raised")

IsPresent(t) == env.tex[t].exists

WithoutNav(items) == SelectSeq(items, LAMBDA it : it.kind \in {"chapter", "media"})

\* C5: a missing material adds no chapter and no media, and the package is the
\* one the run builds from the list without the missing materials
MissingIsAsIfAbsent ==
    pc = "done" =>
        LET present == SelectSeq(cfg.materials, IsPresent)
            c2      == [cfg EXCEPT !.materials = present]
            alt     == RunLoop(Setup(c2, RunFiles(env)), c2, 0)
        IN /\ \A k \in 1..Len(origin) : IsPresent(cfg.materials[origin[k]])
           /\ WithoutNav(output[1].items) = alt.book.items
           /\ output[1].spine = alt.book.spine

\* C6: no two media items of the package have the same filename
NoDuplicateMedia ==
    \A i, j \in 1..Len(book.items) :
        (i < j /\ IsMedia(book.items[i]) /\ IsMedia(book.items[j]))
        => ~(book.items[i].stem = book.items[j].stem
             /\ book.items[i].ext = book.items[j].ext)

\* C9: with an empty materials list the run raises the configuration error
\* and nothing was created: no log, no debug directory, no Pandoc call, no package
EmptyMaterialsAbortsFirst ==
    cfg.materials = <<>> =>
        /\ pc \in {"start", "raised"}
        /\ pc = "raised" => error = "ValueError"
        /\ ~IsFile(fs, LogPath)
        /\ log = <<>>
        /\ HtmlDir \notin dirs
        /\ calls = <<>>
        /\ output = <<>>
        /\ fs = RunFiles(env)

EmptyMaterialsAborted ==
    pc = "raised" /\ cfg.materials = <<>> /\ cfg.debug

HtmlDirImages == { f \in fs : f.dir = HtmlDir /\ f.ext # "html" }

\* C10: two tags written for the same resolved source name the same file, and
\* the debug HTML directory holds one file per written name
PlacementIsIdempotent ==
    /\ \A i, j \in 1..Len(placed) :
          placed[i].src = placed[j].src
          => (placed[i].stem = placed[j].stem /\ placed[i].ext = placed[j].ext)
    /\ cfg.debug =>
          /\ \A i \in 1..Len(placed) :
                IsFile(fs, PathOf(HtmlDir, placed[i].stem, placed[i].ext))
          /\ Cardinality(HtmlDirImages)
               = Cardinality({ <<placed[i].stem, placed[i].ext>> : i \in 1..Len(placed) })

\* the same source placed by two documents, and twice by one of them
SameSourcePlacedTwice ==
    /\ cfg.debug
    /\ \E i, j \in 1..Len(placed) : i + 2 < j /\ placed[i].src = placed[j].src

----------------------------------------------------------------------------
(* The layout cleaner on its own: inputs are concatenations of fragments *)

MaxFrags == 3

Fragments ==
    { MulticolsOpen, DivClose, NumParaOpen, NumParaClose,
      Text(<<"2">>), Text(<<"x">>),
      Text(<<"<", "/", "d">>), Text(<<"i", "v", ">">>) }

FragSeqs == UNION { [1..n -> Fragments] : n \in 0..MaxFrags }

CleanInit ==
    /\ cl_pc = "input"
    /\ cl_in \in { Concat(q) : q \in FragSeqs }
    /\ cl_once = <<>>
    /\ cl_twice = <<>>
    /\ RewriteIdle
    /\ RunIdle
    /\ env = [convFails |-> {}, copyFails |-> {}, tex |-> [t \in TexFiles |-> NoTexEnv]]
    /\ fs = {}

CleanOnce ==
    /\ cl_pc = "input"
    /\ cl_once' = remove_multicols_html(cl_in)
    /\ cl_pc' = "once"
    /\ UNCHANGED <<cl_in, cl_twice, rwvars, runvars, env, fs>>

CleanTwice ==
    /\ cl_pc = "once"
    /\ cl_twice' = remove_multicols_html(cl_once)
    /\ cl_pc' = "twice"
    /\ UNCHANGED <<cl_in, cl_once, rwvars, runvars, env, fs>>

CleanNext == CleanOnce \/ CleanTwice

SpecClean == CleanInit /\ [][CleanNext]_vars

\* C7: layout cleaning is idempotent: cleaning the cleaned text changes nothing
CleanIdempotent == cl_pc = "twice" => cl_twice = cl_once

----------------------------------------------------------------------------
(* One call of the rewriter, match by match *)

MaxAtoms == 2

RwTexDir == "a"

RwMediaDir == "a/ch1_media"

RwAtoms ==
    { Placeholder("diagram", "pdf"), Placeholder("scan", "PDF"),
      Placeholder("photo", "png"), Placeholder("gone", "png"), Ch("x") }

RwHtmls == UNION { [1..n -> RwAtoms] : n \in 0..MaxAtoms }

\* photo.png and scan.PDF lie beside the .tex file; diagram.pdf may lie there,
\* in the media directory, in both or in neither
RwFiles ==
    { { FileAt(p, Native(p)) :
          p \in {PathOf(RwTexDir, "photo", "png"), PathOf(RwTexDir, "scan", "PDF")}
                \cup extra }
      : extra \in SUBSET { PathOf(RwTexDir, "diagram", "pdf"),
                           PathOf(RwMediaDir, "diagram", "pdf") } }

RewriteInit ==
    /\ rw_pc = "scan"
    /\ rw_in \in RwHtmls
    /\ rw_out = <<>>
    /\ rw_media_dir \in {NoDir, RwMediaDir}
    /\ rw_html_dir \in {NoDir, HtmlDir}
    /\ fs \in RwFiles
    /\ env \in [convFails : SUBSET {"diagram", "scan"},
                copyFails : SUBSET {"diagram", "photo"},
                tex : {[t \in TexFiles |-> NoTexEnv]}]
    /\ CleanIdle
    /\ RunIdle

\* the atom the scan is at
RwCur == rw_in[Len(rw_out) + 1]

\* re.sub calls replace_placeholder on the next match
RwMatch ==
    /\ rw_pc = "scan"
    /\ Len(rw_out) < Len(rw_in)
    /\ RwCur.k = "ph"
    /\ LET r == replace_placeholder(RwCur, rw_media_dir, RwTexDir, rw_html_dir, fs)
       IN /\ rw_out' = Append(rw_out, r.out)
          /\ fs' = r.fs
    /\ UNCHANGED <<rw_pc, rw_in, rw_media_dir, rw_html_dir, env, clvars, runvars>>

\* re.sub copies the text between matches
RwCopy ==
    /\ rw_pc = "scan"
    /\ Len(rw_out) < Len(rw_in)
    /\ RwCur.k # "ph"
    /\ rw_out' = Append(rw_out, RwCur)
    /\ UNCHANGED <<rw_pc, rw_in, rw_media_dir, rw_html_dir, env, fs, clvars, runvars>>

RwReturn ==
    /\ rw_pc = "scan"
    /\ Len(rw_out) = Len(rw_in)
    /\ rw_pc' = "done"
    /\ UNCHANGED <<rw_in, rw_out, rw_media_dir, rw_html_dir, env, fs, clvars, runvars>>

RewriteNext == RwMatch \/ RwCopy \/ RwReturn

SpecRewrite == RewriteInit /\ [][RewriteNext]_vars

----------------------------------------------------------------------------
(* Properties of the rewriter *)

AtOccurrence == rw_pc = "scan" /\ Len(rw_out) < Len(rw_in)

\* the referenced name is in neither directory
Unresolved(m) ==
    /\ ~(rw_media_dir # NoDir /\ IsFile(fs, PathOf(rw_media_dir, m.stem, m.ext)))
    /\ ~IsFile(fs, PathOf(RwTexDir, m.stem, m.ext))

TranscodeFails(m) == Lower(m.ext) = "pdf" /\ m.stem \in env.convFails

CopyFails(m) == rw_html_dir # NoDir /\ m.stem \in env.copyFails

OccurrenceFails(m) == Unresolved(m) \/ TranscodeFails(m) \/ CopyFails(m)

\* C4: an occurrence whose resolution, transcoding or copy fails is left as it
\* was, any other occurrence becomes an <img> tag, and what was written before
\* it and the text around it are not touched
FailuresArePerReference ==
    [][ AtOccurrence =>
          /\ Len(rw_out') = Len(rw_out) + 1
          /\ SubSeq(rw_out', 1, Len(rw_out)) = rw_out
          /\ rw_in' = rw_in
          /\ LET m == RwCur
                 o == rw_out'[Len(rw_out')]
             IN /\ m.k # "ph" => o = m
                /\ (m.k = "ph" /\ OccurrenceFails(m)) => o = m
                /\ (m.k = "ph" /\ ~OccurrenceFails(m)) => o.k = "img" ]_vars

\* photo.png is there, so its placeholder stayed because the copy failed;
\* a later occurrence was rewritten all the same
FailureThenSuccess ==
    /\ rw_pc = "done"
    /\ \E i, j \in 1..Len(rw_out) :
          /\ i < j
          /\ rw_out[i] = Placeholder("photo", "png")
          /\ rw_out[j].k = "img"

TagDir(src) == IF rw_html_dir # NoDir THEN rw_html_dir ELSE src.dir

====
